---------------------------- MODULE Spec2Model ----------------------------
(***************************************************************************)
(* Agent Station (backend/app/main.py): the registry store (AgentStore),   *)
(* the liveness loop (ping_loop), the request handlers that publish        *)
(* (register_agent, list_agents, post_chat_message_sid_sender,             *)
(* debug_broadcast, debug_send_direct), the WebSocket handler              *)
(* (websocket_endpoint) and the fan-out hub (ConnectionManager).           *)
(*                                                                         *)
(* The program runs on one asyncio event loop: a task runs without         *)
(* interruption from one suspension to the next.  Both locks               *)
(* (AgentStore._lock, ConnectionManager._lock) guard bodies that hold no   *)
(* await, so each AgentStore operation and each connect/disconnect body    *)
(* is one atomic step.  The steps of the model are cut at the awaits that  *)
(* wait for the outside world: client.get, send_json, accept,              *)
(* receive_text, sleep.                                                    *)
(***************************************************************************)
EXTENDS Naturals, Sequences, FiniteSets

\* ---------------------------------------------------------------- bounds
\* Largest value of the wall clock (datetime.now); 0 stands for None.
MaxTime == 2
\* Largest number of broadcast calls in one behaviour.
MaxEvents == 3
\* The same, where WebSocket clients are connected (SpecHub).
MaxHubEvents == 2

AgentIds == {"a1", "a2"}
Names == {"n1", "n2"}
Endpoints == {"u1", "u2"}
Subs == {"s1", "s2"}
\* The callers of manager.broadcast.
Publishers == {"monitor", "register", "chat", "list", "debug"}
\* The broadcast calls of a behaviour, by their place in emitted.  Every
\* request runs in a task of its own, so any number of them are in flight.
Calls == 1..MaxEvents

\* ------------------------------------------------------------- constants
ACTIVE == "active"
INACTIVE == "inactive"
None == 0
\* WebSocketState.CONNECTED.value, the value broadcast compares with.
CONNECTED == 1
DISCONNECTED == CONNECTED + 1

VARIABLES
    file,                \* the "agents" list of data/agents.json
    clock,               \* datetime.now(timezone.utc)
    mon,                 \* ping_loop: its position and its snapshot
    active_connections,  \* ConnectionManager.active_connections
    hub_lock,            \* ConnectionManager._lock: the task that holds it
    ws,                  \* websocket_endpoint, per socket: position, client_state
    bc,                  \* the broadcast calls: each one's delivery pass
    emitted,             \* history: the broadcast calls, in call order
    recv,                \* history: per socket, the events received, in order
    done,                \* history: the last broadcast call, of those that
                         \* had subscribers, that returned
    call,                \* history: the last set_status call of ping_loop
    lastReg,             \* history: per id, the last registration submitted
    disk,                \* the files data/agents.json and data/agents.json.tmp
    store,               \* AgentStore: its lock and the operations in progress
    health,              \* the agents' endpoints: whether /ping is answered
    listed,              \* history: the last GET /agents request
    direct               \* history: the sockets sent a direct_message

\* The registry list, the liveness loop and the hub.
main == <<file, clock, mon, active_connections, hub_lock, ws, bc, emitted,
          recv, done, call, lastReg>>

\* The state that only the storage steps, the endpoints and the listing
\* requests change.
others == <<disk, store, health, listed, direct>>

vars == <<file, clock, mon, active_connections, hub_lock, ws, bc, emitted,
          recv, done, call, lastReg, disk, store, health, listed, direct>>

\* --------------------------------------------------------------- helpers
Range(s) == {s[i] : i \in 1..Len(s)}

\* Index of the first record of f with the given id, 0 when there is none.
IndexOf(f, id) ==
    IF \E i \in 1..Len(f) : f[i].id = id
    THEN CHOOSE i \in 1..Len(f) :
            f[i].id = id /\ \A j \in 1..(i - 1) : f[j].id # id
    ELSE 0

\* Agent(id=..., name=..., endpoint=..., status=INACTIVE): last_seen_at None.
Agent(id, name, endpoint) ==
    [id |-> id, name |-> name, endpoint |-> endpoint,
     status |-> INACTIVE, last_seen_at |-> None]

\* The "agent" slot of an event that carries none (chat_message).
NoAgent == [id |-> "", name |-> "", endpoint |-> "", status |-> "", last_seen_at |-> None]

\* ------------------------------------------------------------ AgentStore
\* AgentStore.list_agents: the stored records, in file order.
list_agents(f) == f

\* Mutant of upsert_agent: the record is appended without looking for its id.
upsert_append(f, agent) == Append(f, agent)

\* AgentStore.upsert_agent: the first record with the id is replaced by the
\* whole submitted record, else the record is appended.
upsert_agent(f, agent) ==
    LET idx == IndexOf(f, agent.id)
    IN  IF idx # 0 THEN [f EXCEPT ![idx] = agent] ELSE Append(f, agent)

\* Mutant of set_status: the dedup also compares last_seen_at (the condition
\* commented out on line 175).
set_status_ts(f, agent_id, status, last_seen_at) ==
    LET idx == IndexOf(f, agent_id)
    IN  IF idx = 0 THEN [file |-> f, ret |-> <<>>]
        ELSE IF f[idx].status = status /\ f[idx].last_seen_at = last_seen_at
             THEN [file |-> f, ret |-> <<>>]
        ELSE LET a == [f[idx] EXCEPT !.status = status,
                                     !.last_seen_at = last_seen_at]
             IN  [file |-> [f EXCEPT ![idx] = a], ret |-> <<a>>]

\* Mutant of set_status: the status is written, last_seen_at is not.
set_status_keep_seen(f, agent_id, status, last_seen_at) ==
    LET idx == IndexOf(f, agent_id)
    IN  IF idx = 0 THEN [file |-> f, ret |-> <<>>]
        ELSE IF f[idx].status = status THEN [file |-> f, ret |-> <<>>]
        ELSE LET a == [f[idx] EXCEPT !.status = status]
             IN  [file |-> [f EXCEPT ![idx] = a], ret |-> <<a>>]

\* Mutant of set_status: no dedup, the record is returned also when the
\* status is the stored one.
set_status_nodedup(f, agent_id, status, last_seen_at) ==
    LET idx == IndexOf(f, agent_id)
    IN  IF idx = 0 THEN [file |-> f, ret |-> <<>>]
        ELSE LET a == [f[idx] EXCEPT !.status = status,
                                     !.last_seen_at = last_seen_at]
             IN  [file |-> [f EXCEPT ![idx] = a], ret |-> <<a>>]

\* Mutant of set_status: the record is returned, the registry is not written.
set_status_unwritten(f, agent_id, status, last_seen_at) ==
    LET idx == IndexOf(f, agent_id)
    IN  IF idx = 0 THEN [file |-> f, ret |-> <<>>]
        ELSE IF f[idx].status = status THEN [file |-> f, ret |-> <<>>]
        ELSE LET a == [f[idx] EXCEPT !.status = status,
                                     !.last_seen_at = last_seen_at]
             IN  [file |-> f, ret |-> <<a>>]

\* AgentStore.set_status: [file, ret]; ret is <<>> for None, <<record>> else.
set_status(f, agent_id, status, last_seen_at) ==
    LET idx == IndexOf(f, agent_id)
    IN  IF idx = 0 THEN [file |-> f, ret |-> <<>>]
        ELSE IF f[idx].status = status THEN [file |-> f, ret |-> <<>>]
        ELSE LET a == [f[idx] EXCEPT !.status = status,
                                     !.last_seen_at = last_seen_at]
             IN  [file |-> [f EXCEPT ![idx] = a], ret |-> <<a>>]

\* ----------------------------------------------------- ConnectionManager
\* A broadcast call: seq is its place in emitted; cur is the connection whose
\* send_json is awaited ("" for none) and curOk whether that send succeeds;
\* todo is the rest of the snapshot; stale is the list of line 92.  failed,
\* before and clean are history: the connections whose send failed, the
\* subscriber set at the call, and whether no connect or disconnect ran since.
IdleBc ==
    [active |-> FALSE, seq |-> 0, cur |-> "", curOk |-> TRUE, curOpen |-> TRUE,
     todo |-> <<>>, stale |-> <<>>, raised |-> FALSE,
     failed |-> {}, before |-> {}, clean |-> TRUE]

RECURSIVE RemoveFirst(_, _)
\* list.remove: s without its first occurrence of x.
RemoveFirst(s, x) ==
    IF s = <<>> THEN <<>>
    ELSE IF Head(s) = x THEN Tail(s)
         ELSE <<Head(s)>> \o RemoveFirst(Tail(s), x)

\* Mutant of disconnect: an absent socket makes the last connection go.
disconnect_absent_pops(conns, s) ==
    IF s \in Range(conns) THEN RemoveFirst(conns, s)
    ELSE IF conns = <<>> THEN conns ELSE SubSeq(conns, 1, Len(conns) - 1)

\* ConnectionManager.disconnect: remove the socket when it is present.
disconnect(conns, s) == IF s \in Range(conns) THEN RemoveFirst(conns, s) ELSE conns

RECURSIVE prune(_, _)
\* Lines 115-117: disconnect every member of stale, in order.
prune(conns, stale) ==
    IF stale = <<>> THEN conns
    ELSE prune(disconnect(conns, Head(stale)), Tail(stale))

\* asyncio.Lock, entering `async with self._lock` (lines 72, 83): the task
\* takes the lock when no task holds it; "" stands for an unlocked lock.
acquire(l, who) == IF l = "" THEN who ELSE l

\* Leaving the block: the lock is released by the task that holds it.
release(l, who) == IF l = who THEN "" ELSE l

\* A whole `async with self._lock` block of the hub (lines 72-80, 83-88).  No
\* await stands inside, so the block begins and ends in one step: the lock
\* after it.
with_lock(l, who) == release(acquire(l, who), who)

RECURSIVE prune_lock(_, _)
\* Lines 115-117: the lock after the disconnect of every member of stale.
prune_lock(l, stale) ==
    IF stale = <<>> THEN l
    ELSE prune_lock(with_lock(l, "broadcast"), Tail(stale))

\* Mutant of pass_lock: the delivery pass runs inside `async with self._lock`.
pass_lock_held(l, conns) == IF conns = <<>> THEN l ELSE acquire(l, "broadcast")

\* The lock when broadcast has taken its snapshot and called its first send
\* (lines 90-99): no `async with self._lock` is entered on the way, the lock
\* is as the call found it.
pass_lock(l, conns) == l

\* Mutant of deliver: a connection that is not CONNECTED is marked stale.
deliver_closed_stale(open, ok) ==
    IF open
    THEN IF ok THEN "sent" ELSE "stale"
    ELSE "stale"

\* Mutant of deliver: a failed send is swallowed, the connection not marked.
deliver_unmarked(open, ok) == "sent"

\* Mutant of deliver: a failed send is not caught.
deliver_uncaught(open, ok) == IF ok THEN "sent" ELSE "raise"

\* The handling of one send of the delivery pass (lines 95-112): "sent",
\* "stale" (the failure is caught and the connection marked), or "raise"
\* (the failure leaves broadcast).  open: client_state.value == 1.
deliver(open, ok) ==
    IF open
    THEN IF ok THEN "sent" ELSE "stale"      \* except Exception as e
    ELSE IF ok THEN "sent" ELSE "stale"      \* except Exception as retry_error

\* The next send_json of the pass is called: the head of todo becomes cur.
Issue(b, ok) ==
    IF b.todo = <<>> THEN [b EXCEPT !.cur = ""]
    ELSE [b EXCEPT !.cur = Head(b.todo), !.curOk = ok, !.todo = Tail(b.todo),
                   !.curOpen = (ws[Head(b.todo)].client_state = CONNECTED)]

\* A frame written by a successful send reaches its socket at once.
Delivered(r, b) ==
    IF b.cur # "" /\ b.curOk THEN [r EXCEPT ![b.cur] = Append(@, b.seq)] ELSE r

\* broadcast is called (line 90): the snapshot of line 94 is taken and the
\* first send_json is called.  With no subscriber nothing is awaited:
\* broadcast returns to its caller without a suspension.
call_broadcast(conns, seq, ok) ==
    IF conns = <<>> THEN IdleBc
    ELSE Issue([IdleBc EXCEPT !.active = TRUE, !.seq = seq,
                              !.todo = conns, !.before = Range(conns)], ok)

\* A connect or disconnect ran: every broadcast in flight but c saw it.
Disturbed(b, c) ==
    [q \in Calls |-> IF q # c /\ b[q].active THEN [b[q] EXCEPT !.clean = FALSE]
                     ELSE b[q]]

\* Mutant of pass_over: broadcast returns without waiting for its sends.
pass_over_early(b) == TRUE

\* The for loop of line 94 is over: no send is awaited and none is left.
pass_over(b) == b.cur = ""

\* The broadcast calls that have returned, b being the calls in flight.
Returned(b) == (1..Len(emitted)) \ {c \in Calls : b[c].active}

\* An event, with (history) the calls that had returned when it was published.
Event(pub, type, agent, b) ==
    [pub |-> pub, type |-> type, agent |-> agent, prior |-> Returned(b)]


\* -------------------------------------------------------- durable storage
\* A file: whether it exists and its text, a sequence of tokens.
NoFile == [exists |-> FALSE, text |-> <<>>]

\* A token of the JSON text: a bracket, or a key with its string or number.
Tok(k, v, n) == [k |-> k, v |-> v, n |-> n]

\* json.dump of one record of "agents".
dump_agent(a) ==
    <<Tok("(", "", None), Tok("id", a.id, None), Tok("name", a.name, None),
      Tok("endpoint", a.endpoint, None), Tok("status", a.status, None),
      Tok("last_seen_at", "", a.last_seen_at), Tok(")", "", None)>>

RECURSIVE dump_agents(_)
dump_agents(f) ==
    IF f = <<>> THEN <<>> ELSE dump_agent(Head(f)) \o dump_agents(Tail(f))

\* json.dump({"agents": f}) (line 140): the text written, token by token.
json_dump(f) == <<Tok("{", "", None)>> \o dump_agents(f) \o <<Tok("}", "", None)>>

RECURSIVE load_agents(_)
\* The records of a text between its brackets; <<NoAgent>> ends the result
\* when the text is not a sequence of whole records.
load_agents(body) ==
    LET k == Len(dump_agent(NoAgent))
        g == SubSeq(body, 1, k)
        a == [id |-> g[2].v, name |-> g[3].v, endpoint |-> g[4].v,
              status |-> g[5].v, last_seen_at |-> g[6].n]
    IN  IF body = <<>> THEN <<>>
        ELSE IF Len(body) < k THEN <<NoAgent>>
        ELSE IF g # dump_agent(a) THEN <<NoAgent>>
        ELSE <<a>> \o load_agents(SubSeq(body, k + 1, Len(body)))

\* json.load (line 133): ok is FALSE when it raises JSONDecodeError.
json_load(text) ==
    LET n == Len(text)
        agents == load_agents(SubSeq(text, 2, n - 1))
    IN  IF /\ n >= 2
           /\ text[1] = Tok("{", "", None)
           /\ text[n] = Tok("}", "", None)
           /\ NoAgent \notin Range(agents)
        THEN [ok |-> TRUE, agents |-> agents]
        ELSE [ok |-> FALSE, agents |-> <<>>]

\* AgentStore._read_sync: only FileNotFoundError is caught (line 134).
_read_sync(d) ==
    IF ~d.path.exists THEN [ok |-> TRUE, agents |-> <<>>]
    ELSE json_load(d.path.text)

\* Mutant of write_target: the text is written to the registry file itself.
write_in_place == "path"

\* The file _write opens for writing (line 138): self.path + ".tmp".
write_target == "tmp"

\* Mutant of lock_free: the lock is not looked at.
lock_ignored(l) == TRUE

\* async with self._lock (lines 144, 149, 168): entered when nobody holds it.
lock_free(l) == l = ""

\* Who runs store operations: the constructor, POST /agent, ping_loop and
\* GET /agents.
StoreClients == {"init", "register", "monitor", "list"}

IdleOp == [pc |-> "idle", kind |-> "", agent |-> NoAgent, pre |-> <<>>, data |-> <<>>]

\* The process is starting: AgentStore.__init__ has not run yet.  snap is
\* the rest of the snapshot of ping_loop's iteration (line 469).
BootStore ==
    [lock |-> "", boot |-> TRUE, op |-> [c \in StoreClients |-> IdleOp],
     last |-> [pre |-> <<>>, post |-> <<>>], committed |-> <<>>, snap |-> <<>>]

\* ------------------------------------------------------------------ Init
IdleMon == [pc |-> "run", todo |-> <<>>, branch |-> "try", err |-> FALSE]

NoneDone ==
    [seq |-> 0, pub |-> "", before |-> {}, failed |-> {}, after |-> {},
     clean |-> TRUE, raised |-> FALSE]

NoCall ==
    [id |-> "", status |-> "", ts |-> None, pre |-> NoAgent, ret |-> <<>>,
     changed |-> FALSE]

\* No GET /agents request yet.  status is the filter ("" for none), readable
\* and pre what the registry held, ret the agents returned.
NoListing ==
    [n |-> 0, status |-> "", readable |-> TRUE, missing |-> FALSE, pre |-> <<>>,
     ret |-> <<>>, raised |-> FALSE]

\* The state after construction: AgentStore.__init__ writes {"agents": []},
\* ConnectionManager.__init__ an empty list; startup creates the ping_loop task.
InitRest ==
    /\ file = <<>>
    /\ clock = 1
    /\ mon = IdleMon
    /\ active_connections = <<>>
    /\ hub_lock = ""
    /\ ws = [s \in Subs |-> [pc |-> "new", client_state |-> 0]]
    /\ bc = [c \in Calls |-> IdleBc]
    /\ emitted = <<>>
    /\ recv = [s \in Subs |-> <<>>]
    /\ done = NoneDone
    /\ call = NoCall
    /\ lastReg = [id \in AgentIds |-> <<>>]
    /\ health = [e \in Endpoints |-> "down"]
    /\ listed = NoListing
    /\ direct = {}

Init ==
    /\ InitRest
    /\ disk = [path |-> [exists |-> TRUE, text |-> json_dump(<<>>)], tmp |-> NoFile]
    /\ store = [BootStore EXCEPT !.boot = FALSE]

\* The process starts on a machine without data/agents.json: AgentStore.__init__
\* (lines 126-128) has not run yet.
InitBoot ==
    /\ InitRest
    /\ disk = [path |-> NoFile, tmp |-> NoFile]
    /\ store = BootStore

\* ----------------------------------------------------------- environment
\* Time passes.
Tick ==
    /\ clock < MaxTime
    /\ clock' = clock + 1
    /\ UNCHANGED <<file, mon, active_connections, hub_lock, ws, bc, emitted, recv, done,
                   call, lastReg>>
    /\ UNCHANGED others

\* -------------------------------------------------------------- publish
\* A publisher calls manager.broadcast: the call is recorded, the snapshot
\* taken and the first send called.  b, conns and l are the hub (the calls
\* in flight, the subscribers, the lock) at the call.
Publish(p, type, agent, b, conns, l, ok) ==
    /\ Len(emitted) < MaxEvents
    /\ hub_lock' = pass_lock(l, conns)
    /\ emitted' = Append(emitted, Event(p, type, agent, b))
    /\ bc' = [b EXCEPT ![Len(emitted) + 1] =
                          call_broadcast(conns, Len(emitted) + 1, ok)]
    /\ recv' = Delivered(recv, bc'[Len(emitted) + 1])

\* ------------------------------------------------------- request handlers
\* POST /agent (register_agent): upsert, then broadcast the submitted record.
RegisterAgent(id, name, endpoint, ok) ==
    LET agent == Agent(id, name, endpoint)
    IN  /\ file' = upsert_agent(file, agent)
        /\ Publish("register", "agent_status_changed", agent, bc,
                   active_connections, hub_lock, ok)
        /\ lastReg' = [lastReg EXCEPT ![id] = <<name, endpoint>>]
        /\ call' = IF call.id = id THEN NoCall ELSE call
        /\ UNCHANGED <<clock, mon, active_connections, ws, done>>
        /\ UNCHANGED others

\* POST /chat/{sid}/{sender} (post_chat_message_sid_sender): the message is
\* saved to the chat log, which is outside the model, and broadcast.
PostChat(ok) ==
    /\ Publish("chat", "chat_message", NoAgent, bc, active_connections, hub_lock, ok)
    /\ UNCHANGED <<file, clock, mon, active_connections, ws, done, call, lastReg>>
    /\ UNCHANGED others

\* POST /debug/broadcast (debug_broadcast): the message is broadcast.
DebugBroadcast(ok) ==
    /\ Publish("debug", "debug_message", NoAgent, bc, active_connections, hub_lock, ok)
    /\ UNCHANGED <<file, clock, mon, active_connections, ws, done, call, lastReg>>
    /\ UNCHANGED others

\* POST /debug/send_direct (debug_send_direct): one frame is sent to the
\* connection with the given id when it is subscribed.  A send that raises is
\* answered with success False: the connection stays subscribed.
DebugSendDirect(s, ok) ==
    /\ direct' = IF s \in Range(active_connections) /\ ok THEN direct \cup {s}
                 ELSE direct
    /\ UNCHANGED <<main, disk, store, health, listed>>

\* The values of the status parameter of GET /agents; "" stands for None.
Filters == {"", ACTIVE, INACTIVE}

\* [a for a in agents if a.status == status] (line 278).
filter_status(agents, status) == SelectSeq(agents, LAMBDA a : a.status = status)

\* GET /agents (list_agents, lines 274-288).  With a filter the handler builds
\* a chat_message from agents[0], which raises IndexError when no agent is
\* left, and broadcasts it before it answers.
ListAgents(status, ok) ==
    LET agents == list_agents(file)
        matched == filter_status(agents, status)
        filtered == status \in {ACTIVE, INACTIVE}
        raises == filtered /\ matched = <<>>
    IN  /\ listed' = [n |-> 1, status |-> status, readable |-> TRUE,
                      missing |-> FALSE, pre |-> agents,
                      ret |-> IF ~filtered THEN agents
                              ELSE IF raises THEN <<>> ELSE matched,
                      raised |-> raises]
        /\ IF filtered /\ ~raises
           THEN Publish("list", "chat_message", [NoAgent EXCEPT !.id = matched[1].id],
                        bc, active_connections, hub_lock, ok)
           ELSE UNCHANGED <<hub_lock, bc, emitted, recv>>
        /\ UNCHANGED <<file, clock, mon, active_connections, ws, done, call,
                       lastReg, disk, store, health, direct>>

\* ------------------------------------------------------------- ping_loop
\* resp.status_code == 200
HTTP_OK == 200

\* What client.get gives: a response with a status code, or an exception
\* (timeout, connection refused).
ProbeResults ==
    {[kind |-> "response", code |-> HTTP_OK],
     [kind |-> "response", code |-> 500],
     [kind |-> "error", code |-> 0]}

\* The for loop moves to the next agent of the snapshot, or to the sleep.
Advance(m) ==
    [pc |-> IF Tail(m.todo) = <<>> THEN "sleep" ELSE "probe",
     todo |-> Tail(m.todo), branch |-> "try", err |-> FALSE]

\* Mutant of iteration_error: the exception leaves ping_loop.
iteration_dies(m) ==
    [pc |-> "dead", todo |-> <<>>, branch |-> "try", err |-> TRUE]

\* Lines 499-501: an exception that reaches the outer try ends the iteration
\* and is dropped; the loop goes on to the sleep.
iteration_error(m) ==
    [pc |-> "sleep", todo |-> <<>>, branch |-> "try", err |-> TRUE]

\* Mutant of inactive_seen: None is handed over.
inactive_seen_none(agent) == None

\* The last_seen_at handed to set_status(INACTIVE) (lines 484, 492): the one
\* of the iteration's snapshot.
inactive_seen(agent) == agent.last_seen_at

\* updated = await store.set_status(...); if updated is not None: broadcast.
\* branch is the place of the call; b, conns and l the hub when it is made.  With
\* no subscriber the broadcast returns at once and the loop goes on.
SetStatusAndEmit(id, status, ts, branch, b, conns, l, ok) ==
    LET r == set_status(file, id, status, ts)
        i == IndexOf(file, id)
    IN  /\ file' = r.file
        /\ call' = [id |-> id, status |-> status, ts |-> ts,
                    pre |-> IF i = 0 THEN NoAgent ELSE file[i],
                    ret |-> r.ret, changed |-> (r.file # file)]
        /\ IF r.ret # <<>>
           THEN /\ Publish("monitor", "agent_status_changed", r.ret[1], b, conns,
                           l, ok)
                /\ mon' = IF conns = <<>> THEN Advance(mon)
                          ELSE [mon EXCEPT !.pc = "bcast", !.branch = branch]
           ELSE /\ mon' = Advance(mon)
                /\ bc' = b
                /\ hub_lock' = l
                /\ UNCHANGED <<emitted, recv>>

\* Lines 491-498, the per-agent handler: set_status(INACTIVE) with the
\* snapshot's last_seen_at.  f2: this set_status raises, which ends the
\* iteration.
HandleExcept(f2, b, conns, l, ok) ==
    LET agent == Head(mon.todo)
    IN  IF f2
        THEN /\ mon' = iteration_error(mon)
             /\ bc' = b
             /\ hub_lock' = l
             /\ UNCHANGED <<file, emitted, recv, call>>
        ELSE SetStatusAndEmit(agent.id, INACTIVE, inactive_seen(agent),
                              "except", b, conns, l, ok)

\* Lines 471-498 for the agent at the head of the snapshot, from the return of
\* client.get to the next suspension.  f1: the set_status of the try raises.
ProbeStep(res, ok, f1, f2) ==
    LET agent == Head(mon.todo)
    IN  /\ mon.pc = "probe"
        /\ IF res.kind = "response" /\ ~f1
           THEN IF res.code = HTTP_OK
                THEN SetStatusAndEmit(agent.id, ACTIVE, clock,
                                      "try", bc, active_connections, hub_lock, ok)
                ELSE SetStatusAndEmit(agent.id, INACTIVE, inactive_seen(agent),
                                      "try", bc, active_connections, hub_lock, ok)
           ELSE HandleExcept(f2, bc, active_connections, hub_lock, ok)
        /\ UNCHANGED <<clock, active_connections, ws, done, lastReg>>
        /\ UNCHANGED others

\* Line 469: the iteration starts with a snapshot of the registry.
MonitorList ==
    /\ mon.pc = "run"
    /\ LET agents == list_agents(file)
       IN  mon' = [pc |-> IF agents = <<>> THEN "sleep" ELSE "probe",
                   todo |-> agents, branch |-> "try", err |-> FALSE]
    /\ UNCHANGED <<file, clock, active_connections, hub_lock, ws, bc, emitted, recv, done,
                   call, lastReg>>
    /\ UNCHANGED others

MonitorProbe(res, ok) == ProbeStep(res, ok, FALSE, FALSE)

\* Line 501: the sleep is over and the next iteration starts.
MonitorSleep ==
    /\ mon.pc = "sleep"
    /\ mon' = [mon EXCEPT !.pc = "run", !.err = FALSE]
    /\ UNCHANGED <<file, clock, active_connections, hub_lock, ws, bc, emitted, recv, done,
                   call, lastReg>>
    /\ UNCHANGED others

\* What client.get gives for an endpoint: 200 while its /ping is answered;
\* another status code, or an exception, while it is not.
Answers(h) ==
    IF h = "up" THEN {res \in ProbeResults : res.kind = "response" /\ res.code = HTTP_OK}
    ELSE {res \in ProbeResults : res.kind = "error" \/ res.code # HTTP_OK}

\* The probe of the agent at the head of the snapshot, answered as the
\* agent's endpoint (the one of the snapshot) answers now.
MonitorProbeAt(res) ==
    /\ mon.pc = "probe"
    /\ res \in Answers(health[Head(mon.todo).endpoint])
    /\ MonitorProbe(res, TRUE)

\* An endpoint starts to answer /ping.
EndpointUp(e) ==
    /\ health[e] = "down"
    /\ health' = [health EXCEPT ![e] = "up"]
    /\ UNCHANGED <<main, disk, store, listed, direct>>

\* An endpoint that answered is shut down, for good.
EndpointDown(e) ==
    /\ health[e] = "up"
    /\ health' = [health EXCEPT ![e] = "gone"]
    /\ UNCHANGED <<main, disk, store, listed, direct>>

\* list_agents raises (the registry cannot be read or a record is rejected).
MonitorListFault ==
    /\ mon.pc = "run"
    /\ mon' = iteration_error(mon)
    /\ UNCHANGED <<file, clock, active_connections, hub_lock, ws, bc, emitted, recv, done,
                   call, lastReg>>
    /\ UNCHANGED others

\* A set_status of the iteration raises (the registry cannot be read or
\* written; nothing is written): the one of the try, which hands over to the
\* per-agent handler, and with f2 the one of that handler.
MonitorProbeFault(res, ok, f2) ==
    /\ res.kind = "error" => f2
    /\ ProbeStep(res, ok, TRUE, f2)

\* ------------------------------------------------------- broadcast steps
\* The awaited send_json is over: its outcome is handled (lines 95-112) and
\* the next send of the pass is called.
BroadcastResume(c, okNext) ==
    LET b == bc[c]
        d == deliver(b.curOpen, b.curOk)
        f == IF b.curOk THEN b.failed ELSE b.failed \cup {b.cur}
        b1 == IF d = "sent" THEN [b EXCEPT !.failed = f]
              ELSE IF d = "stale"
                   THEN [b EXCEPT !.failed = f, !.stale = Append(@, b.cur)]
                   ELSE [b EXCEPT !.failed = f, !.raised = TRUE,
                                  !.todo = <<>>, !.stale = <<>>]
        b2 == Issue(b1, okNext)
    IN  /\ b.cur # ""
        /\ bc' = [bc EXCEPT ![c] = b2]
        /\ recv' = Delivered(recv, b2)
        /\ UNCHANGED <<file, clock, mon, active_connections, hub_lock, ws, emitted, done,
                       call, lastReg>>
        /\ UNCHANGED others

\* async with self._lock in connect and disconnect (lines 72, 83): entered
\* when no task holds the lock; a task that finds it held waits.
hub_lock_free == hub_lock = ""

\* The delivery pass is over: the stale connections are disconnected (lines
\* 115-117) and broadcast returns to its caller, which goes on: a request
\* handler ends, the liveness loop goes to its next agent.  A broadcast that
\* raised returns the exception instead: to the handler of line 491 from the
\* try, to the outer handler of line 499 from that handler.
BroadcastReturn(c, ok) ==
    LET b == bc[c]
        p == IF b.active THEN emitted[c].pub ELSE ""
        conns == IF b.raised THEN active_connections
                 ELSE prune(active_connections, b.stale)
        lk == IF b.raised THEN hub_lock ELSE prune_lock(hub_lock, b.stale)
        \* Sends the call did not wait for stay outstanding.
        left == IF b.cur = "" THEN IdleBc
                ELSE [IdleBc EXCEPT !.seq = b.seq, !.cur = b.cur, !.curOk = b.curOk,
                                    !.curOpen = b.curOpen, !.todo = b.todo]
        idle == [bc EXCEPT ![c] = left]
        rest == IF b.stale # <<>> THEN Disturbed(idle, c) ELSE idle
    IN  /\ b.active
        /\ pass_over(b)
        /\ (~b.raised /\ b.stale # <<>>) => hub_lock_free
        /\ active_connections' = conns
        /\ done' = IF b.before = {} THEN done
                   ELSE [seq |-> b.seq, pub |-> p, before |-> b.before,
                         failed |-> b.failed, after |-> Range(conns),
                         clean |-> b.clean, raised |-> b.raised]
        /\ IF p # "monitor"
           THEN /\ bc' = rest
                /\ hub_lock' = lk
                /\ UNCHANGED <<file, mon, emitted, recv, call>>
           ELSE IF ~b.raised
                THEN /\ bc' = rest
                     /\ hub_lock' = lk
                     /\ mon' = Advance(mon)
                     /\ UNCHANGED <<file, emitted, recv, call>>
                ELSE IF mon.branch = "try"
                     THEN HandleExcept(FALSE, rest, conns, lk, ok)
                     ELSE /\ bc' = rest
                          /\ hub_lock' = lk
                          /\ mon' = iteration_error(mon)
                          /\ UNCHANGED <<file, emitted, recv, call>>
        /\ UNCHANGED <<clock, ws, lastReg>>
        /\ UNCHANGED others

\* ---------------------------------------------------- websocket_endpoint
\* await websocket.accept() (line 70), first half: websocket.connect is
\* received, which makes client_state CONNECTED, and accept waits for its
\* send of websocket.accept; the socket is not subscribed yet.
WsAcceptReceive(s) ==
    /\ ws[s].pc = "new"
    /\ ws[s].client_state # CONNECTED
    /\ ws' = [ws EXCEPT ![s].client_state = CONNECTED]
    /\ UNCHANGED <<file, clock, mon, active_connections, hub_lock, bc, emitted, recv, done,
                   call, lastReg>>
    /\ UNCHANGED others

\* manager.connect: accept is over (in one go, or after its wait) and the
\* socket is appended.
WsConnect(s) ==
    /\ ws[s].pc = "new"
    /\ hub_lock_free
    /\ ws' = [ws EXCEPT ![s] = [pc |-> "open", client_state |-> CONNECTED]]
    /\ active_connections' = Append(active_connections, s)
    /\ hub_lock' = with_lock(hub_lock, "connect")
    /\ bc' = Disturbed(bc, 0)
    /\ UNCHANGED <<file, clock, mon, emitted, recv, done, call, lastReg>>
    /\ UNCHANGED others

\* accept raises: the handler's finally disconnects a socket that was never
\* added.  received: websocket.connect was received before the failure (the
\* send of websocket.accept is what raises), so client_state is CONNECTED.
WsAcceptFail(s, received) ==
    /\ ws[s].pc = "new"
    /\ hub_lock_free
    /\ ws' = [ws EXCEPT ![s] = [pc |-> "closed",
                                client_state |-> IF received THEN CONNECTED
                                                 ELSE @.client_state]]
    /\ active_connections' = disconnect(active_connections, s)
    /\ hub_lock' = with_lock(hub_lock, "disconnect")
    /\ bc' = Disturbed(bc, 0)
    /\ UNCHANGED <<file, clock, mon, emitted, recv, done, call, lastReg>>
    /\ UNCHANGED others

\* The receive loop ends, by the client's disconnect (client_state becomes
\* DISCONNECTED) or by a failed echo, and the finally disconnects the socket.
WsClose(s, byClient) ==
    /\ ws[s].pc = "open"
    /\ hub_lock_free
    /\ ws' = [ws EXCEPT ![s] = [pc |-> "closed",
                                client_state |-> IF byClient THEN DISCONNECTED
                                                 ELSE @.client_state]]
    /\ active_connections' = disconnect(active_connections, s)
    /\ hub_lock' = with_lock(hub_lock, "disconnect")
    /\ bc' = Disturbed(bc, 0)
    /\ UNCHANGED <<file, clock, mon, emitted, recv, done, call, lastReg>>
    /\ UNCHANGED others

\* --------------------------------------------------------- storage steps
\* The steps of the AgentStore operations on the files.  They are taken one
\* by one because the process can end between any two of them.

\* The registrations submitted to the store.
StoreUpserts ==
    {Agent("a1", name, "u1") : name \in Names} \cup {Agent("a2", "n2", "u2")}

\* The calls made to the store: upsert_agent(agent) by POST /agent; by
\* ping_loop, for the agent at the head of its snapshot,
\* set_status(agent.id, ACTIVE, now) (line 476) and
\* set_status(agent.id, INACTIVE, agent.last_seen_at) (lines 484, 492).
StoreRequests ==
    {[kind |-> "upsert", agent |-> a] : a \in StoreUpserts}
    \cup (IF store.snap = <<>> THEN {}
          ELSE LET agent == Head(store.snap)
               IN  {[kind |-> "set_status",
                     agent |-> [id |-> agent.id, name |-> "", endpoint |-> "",
                                status |-> ACTIVE, last_seen_at |-> clock]],
                    [kind |-> "set_status",
                     agent |-> [id |-> agent.id, name |-> "", endpoint |-> "",
                                status |-> INACTIVE,
                                last_seen_at |-> inactive_seen(agent)]]})

\* What a call makes of the registry f.
apply(kind, agent, f) ==
    IF kind = "upsert" THEN upsert_agent(f, agent)
    ELSE IF kind = "set_status"
         THEN set_status(f, agent.id, agent.status, agent.last_seen_at).file
         ELSE <<>>

\* Whether the call writes: set_status returns before _write when it has
\* nothing to change (lines 175-176, 188).
writes(kind, agent, f) ==
    kind = "set_status" =>
       set_status(f, agent.id, agent.status, agent.last_seen_at).ret # <<>>

\* AgentStore.__init__ (lines 126-128): the registry file is written, empty,
\* when it does not exist.
StoreInit ==
    /\ store.boot
    /\ store.op["init"].pc = "idle"
    /\ IF disk.path.exists
       THEN store' = [store EXCEPT !.boot = FALSE]
       ELSE store' = [store EXCEPT
                         !.op["init"] = [IdleOp EXCEPT !.pc = "open", !.kind = "init"],
                         !.last = [pre |-> <<>>, post |-> <<>>]]
    /\ UNCHANGED <<main, disk, health, listed, direct>>

\* upsert_agent or set_status up to its _write: the lock is taken and the
\* registry read; the call ends here when the read raises or when set_status
\* has nothing to change.
StoreBegin(c, req) ==
    LET r == _read_sync(disk)
        new == apply(req.kind, req.agent, r.agents)
    IN  /\ ~store.boot
        /\ req.kind = (IF c = "register" THEN "upsert" ELSE "set_status")
        /\ c \in {"register", "monitor"}
        /\ c = "monitor" => (store.snap # <<>> /\ req.agent.id = Head(store.snap).id)
        /\ store.op[c].pc = "idle"
        /\ lock_free(store.lock)
        /\ IF r.ok /\ writes(req.kind, req.agent, r.agents)
           THEN store' = [store EXCEPT
                             !.lock = c,
                             !.op[c] = [pc |-> "open", kind |-> req.kind,
                                        agent |-> req.agent, pre |-> r.agents,
                                        data |-> new],
                             !.last = [pre |-> r.agents, post |-> new],
                             !.snap = IF c = "monitor" THEN Tail(@) ELSE @]
           ELSE store' = [store EXCEPT
                             !.snap = IF c # "monitor" THEN @
                                      ELSE IF r.ok THEN Tail(@) ELSE <<>>]
        /\ UNCHANGED <<main, disk, health, listed, direct>>

\* open(tmp_path, "w") (line 139): the file is created or emptied.
StoreOpenTmp(c) ==
    /\ store.op[c].pc = "open"
    /\ disk' = [disk EXCEPT ![write_target] = [exists |-> TRUE, text |-> <<>>]]
    /\ store' = [store EXCEPT !.op[c].pc = "dump"]
    /\ UNCHANGED <<main, health, listed, direct>>

\* json.dump (line 140) writes the next piece of the text; after the last
\* one the file is closed.
StoreDump(c) ==
    LET text == json_dump(store.op[c].data)
        n == Len(disk[write_target].text)
    IN  /\ store.op[c].pc = "dump"
        /\ disk[write_target].exists
        /\ n < Len(text)
        /\ disk' = [disk EXCEPT ![write_target].text = Append(@, text[n + 1])]
        /\ store' = [store EXCEPT
                        !.op[c].pc = IF n + 1 = Len(text) THEN "replace" ELSE "dump"]
        /\ UNCHANGED <<main, health, listed, direct>>

\* os.replace(tmp_path, self.path) (line 141), in one step of the file
\* system; the call returns and the lock is released.  With no file to move
\* os.replace raises and the registry file stays.
StoreReplace(c) ==
    LET op == store.op[c]
    IN  /\ op.pc = "replace"
        /\ disk' = IF write_target = "tmp" /\ disk.tmp.exists
                   THEN [path |-> disk.tmp, tmp |-> NoFile]
                   ELSE disk
        /\ store' = [store EXCEPT
                        !.op[c] = IdleOp,
                        !.lock = IF @ = c THEN "" ELSE @,
                        !.boot = IF c = "init" THEN FALSE ELSE @,
                        !.last = [pre |-> op.data, post |-> op.data],
                        !.committed = apply(op.kind, op.agent, @)]
        /\ UNCHANGED <<main, health, listed, direct>>

\* ping_loop starts an iteration (line 469): the snapshot is what list_agents
\* reads; a read that raises ends the iteration.
StoreSnapshot ==
    LET r == _read_sync(disk)
    IN  /\ ~store.boot
        /\ lock_free(store.lock)
        /\ store.op["monitor"].pc = "idle"
        /\ store.snap = <<>>
        /\ r.ok /\ r.agents # <<>>
        /\ store' = [store EXCEPT !.snap = r.agents]
        /\ UNCHANGED <<main, disk, health, listed, direct>>

\* The process ends, at any point, and is started again: what the files hold
\* stays, the lock and the calls in progress are gone.
Crash ==
    /\ store' = [BootStore EXCEPT !.last = store.last,
                                  !.committed = store.committed]
    /\ store' # store
    /\ UNCHANGED <<main, disk, health, listed, direct>>

\* AgentStore.list_agents (lines 143-146), called on what the files hold.
StoreList ==
    LET r == _read_sync(disk)
    IN  /\ ~store.boot
        /\ lock_free(store.lock)
        /\ listed' = [n |-> 1, status |-> "", readable |-> json_load(disk.path.text).ok,
                      missing |-> ~disk.path.exists, pre |-> r.agents,
                      ret |-> r.agents, raised |-> ~r.ok]
        /\ UNCHANGED <<main, disk, store, health, direct>>

\* The registry file is removed from outside the program.
EnvRemove ==
    /\ disk.path.exists
    /\ disk' = [disk EXCEPT !.path = NoFile]
    /\ UNCHANGED <<main, store, health, listed, direct>>

\* The registry file is cut short from outside the program: k tokens are left.
EnvTruncate(k) ==
    /\ disk.path.exists
    /\ k < Len(disk.path.text)
    /\ disk' = [disk EXCEPT !.path.text = SubSeq(@, 1, k)]
    /\ UNCHANGED <<main, store, health, listed, direct>>

\* ---------------------------------------------------------- specification
\* The whole program.
Next ==
    \/ Tick
    \/ \E id \in AgentIds, name \in Names, endpoint \in Endpoints, ok \in BOOLEAN :
          RegisterAgent(id, name, endpoint, ok)
    \/ \E ok \in BOOLEAN : PostChat(ok)
    \/ \E ok \in BOOLEAN : DebugBroadcast(ok)
    \/ \E s \in Subs, ok \in BOOLEAN : DebugSendDirect(s, ok)
    \/ \E status \in Filters, ok \in BOOLEAN : ListAgents(status, ok)
    \/ MonitorList
    \/ \E res \in ProbeResults, ok \in BOOLEAN : MonitorProbe(res, ok)
    \/ MonitorSleep
    \/ \E c \in Calls, ok \in BOOLEAN : BroadcastResume(c, ok)
    \/ \E c \in Calls, ok \in BOOLEAN : BroadcastReturn(c, ok)
    \/ \E s \in Subs : WsAcceptReceive(s)
    \/ \E s \in Subs : WsConnect(s)
    \/ \E s \in Subs, received \in BOOLEAN : WsAcceptFail(s, received)
    \/ \E s \in Subs, byClient \in BOOLEAN : WsClose(s, byClient)

Spec == Init /\ [][Next]_vars

\* The registry and the liveness loop, with no WebSocket client: every
\* broadcast finds an empty subscriber list and returns at once.
NextRegistry ==
    \/ Tick
    \/ \E id \in AgentIds, name \in Names, endpoint \in Endpoints :
          RegisterAgent(id, name, endpoint, TRUE)
    \/ MonitorList
    \/ \E res \in ProbeResults : MonitorProbe(res, TRUE)
    \/ MonitorSleep

SpecRegistry == Init /\ [][NextRegistry]_vars

\* The same, with the registry failing under the liveness loop.
NextFaults ==
    \/ NextRegistry
    \/ MonitorListFault
    \/ \E res \in ProbeResults, f2 \in BOOLEAN : MonitorProbeFault(res, TRUE, f2)

SpecFaults == Init /\ [][NextFaults]_vars

\* The steps of the hub itself: the delivery passes go on and return, and
\* WebSocket clients come and go.
HubSteps ==
    \/ \E c \in Calls, ok \in BOOLEAN : BroadcastResume(c, ok)
    \/ \E c \in Calls, ok \in BOOLEAN : BroadcastReturn(c, ok)
    \/ \E s \in Subs : WsAcceptReceive(s)
    \/ \E s \in Subs : WsConnect(s)
    \/ \E s \in Subs, received \in BOOLEAN : WsAcceptFail(s, received)
    \/ \E s \in Subs, byClient \in BOOLEAN : WsClose(s, byClient)

\* The hub under the chat handler: any number of POST /chat requests are in
\* flight while WebSocket clients come and go.  The other publishers call the
\* same broadcast; they are left out to keep the state space small.
NextHub ==
    \/ \E ok \in BOOLEAN : Len(emitted) < MaxHubEvents /\ PostChat(ok)
    \/ HubSteps

SpecHub == Init /\ [][NextHub]_vars

\* The hub under the debug handlers: broadcasts and direct frames, to
\* clients that connect and that end their connection themselves.
NextDebug ==
    \/ \E ok \in BOOLEAN : Len(emitted) < MaxHubEvents /\ DebugBroadcast(ok)
    \/ \E s \in Subs, ok \in BOOLEAN : DebugSendDirect(s, ok)
    \/ \E c \in Calls, ok \in BOOLEAN : BroadcastResume(c, ok)
    \/ \E c \in Calls, ok \in BOOLEAN : BroadcastReturn(c, ok)
    \/ \E s \in Subs : WsAcceptReceive(s)
    \/ \E s \in Subs : WsConnect(s)
    \/ \E s \in Subs : WsClose(s, TRUE)

SpecDebug == Init /\ [][NextDebug]_vars

\* The request handlers of the registry beside the liveness loop, with one
\* WebSocket client.
NextRequests ==
    \/ RegisterAgent("a1", "n1", "u1", TRUE)
    \/ \E status \in Filters : ListAgents(status, TRUE)
    \/ MonitorList
    \/ \E res \in ProbeResults : MonitorProbe(res, TRUE)
    \/ MonitorSleep
    \/ \E c \in Calls : BroadcastResume(c, TRUE)
    \/ \E c \in Calls : BroadcastReturn(c, TRUE)
    \/ WsAcceptReceive("s1")
    \/ WsConnect("s1")

SpecRequests == Init /\ [][NextRequests]_vars

\* One agent, registered once, whose endpoint starts to answer and later
\* stops; no WebSocket client.  The event loop runs every task that can run:
\* list_agents and set_status return, client.get returns within its timeout,
\* a broadcast to no subscriber returns, the sleep ends.
NextLive ==
    \/ Tick
    \/ \E name \in Names, endpoint \in Endpoints :
          emitted = <<>> /\ RegisterAgent("a1", name, endpoint, TRUE)
    \/ MonitorList
    \/ \E res \in ProbeResults : MonitorProbeAt(res)
    \/ MonitorSleep
    \/ \E e \in Endpoints : EndpointUp(e)
    \/ \E e \in Endpoints : EndpointDown(e)

SpecLive ==
    /\ Init
    /\ [][NextLive]_vars
    /\ WF_vars(MonitorList)
    /\ WF_vars(\E res \in ProbeResults : MonitorProbeAt(res))
    /\ WF_vars(MonitorSleep)

\* The store on its files: the constructor, registrations and the status
\* updates of the liveness loop, step by step, and the process ending at any
\* point.
NextStore ==
    \/ StoreInit
    \/ \E c \in StoreClients, req \in StoreRequests : StoreBegin(c, req)
    \/ \E c \in StoreClients : StoreOpenTmp(c)
    \/ \E c \in StoreClients : StoreDump(c)
    \/ \E c \in StoreClients : StoreReplace(c)
    \/ StoreSnapshot
    \/ Crash

SpecStore == InitBoot /\ [][NextStore]_vars

\* The store on files that are removed or cut short from outside, in a
\* process that keeps running: registrations and listings, while the
\* liveness loop sleeps.
NextStoreEnv ==
    \/ StoreInit
    \/ \E c \in StoreClients, req \in StoreRequests : StoreBegin(c, req)
    \/ \E c \in StoreClients : StoreOpenTmp(c)
    \/ \E c \in StoreClients : StoreDump(c)
    \/ \E c \in StoreClients : StoreReplace(c)
    \/ StoreList
    \/ EnvRemove
    \/ \E k \in 0..Len(json_dump(<<Agent("a1", "n1", "u1")>>)) : EnvTruncate(k)

SpecStoreEnv == InitBoot /\ [][NextStoreEnv]_vars

\* ---------------------------------------------------------------- claims
Statuses == {ACTIVE, INACTIVE}
Times == 0..MaxTime

\* The last event published.
LastEvent(em) == em[Len(em)]

\* Exactly one event was published in the step.
OneMore == Len(emitted') = Len(emitted) + 1 /\ SubSeq(emitted', 1, Len(emitted)) = emitted

\* C1: set_status changes nothing and returns None when the id is absent or the
\* stored status is the requested one, whatever the timestamp: for every
\* reachable registry and every id, status and timestamp, and for the calls
\* ping_loop made.
C1_SetStatusNoOp ==
    /\ \A id \in AgentIds, st \in Statuses, ts \in Times :
          LET i == IndexOf(file, id)
          IN  (i = 0 \/ file[i].status = st)
                 => set_status(file, id, st, ts) = [file |-> file, ret |-> <<>>]
    /\ (call.id # "" /\ (call.pre = NoAgent \/ call.pre.status = call.status))
          => (~call.changed /\ call.ret = <<>>)

\* ping_loop called set_status(ACTIVE, now) for an agent stored ACTIVE with an
\* older last_seen_at, and the stored record is as it was.
C1_Witness ==
    /\ call.id # ""
    /\ call.pre.status = ACTIVE /\ call.status = ACTIVE
    /\ call.ts # call.pre.last_seen_at
    /\ file[IndexOf(file, call.id)] = call.pre

\* C2: set_status with a status other than the stored one returns the record
\* with the id, the new status and last_seen_at = ts, and list_agents, as long
\* as nothing else was done to that id, shows the agent with that status and ts.
C2_SetStatusUpdates ==
    /\ \A id \in AgentIds, st \in Statuses, ts \in Times :
          LET i == IndexOf(file, id)
              r == set_status(file, id, st, ts)
              l == list_agents(r.file)
          IN  (i # 0 /\ file[i].status # st)
                 => /\ Len(r.ret) = 1
                    /\ r.ret[1].id = id /\ r.ret[1].status = st
                    /\ r.ret[1].last_seen_at = ts
                    /\ Cardinality({j \in 1..Len(l) : l[j].id = id}) = 1
                    /\ l[IndexOf(l, id)].status = st
                    /\ l[IndexOf(l, id)].last_seen_at = ts
    /\ (call.id # "" /\ call.pre # NoAgent /\ call.pre.status # call.status)
          => LET l == list_agents(file)
                 j == IndexOf(l, call.id)
             IN  /\ Len(call.ret) = 1
                 /\ call.ret[1].id = call.id /\ call.ret[1].status = call.status
                 /\ call.ret[1].last_seen_at = call.ts
                 /\ j # 0 /\ l[j].status = call.status /\ l[j].last_seen_at = call.ts

\* ping_loop moved an agent to ACTIVE at time 2 and nothing touched it since.
C2_Witness ==
    /\ call.id # "" /\ call.pre.status = INACTIVE /\ call.status = ACTIVE
    /\ call.ts = 2 /\ call.changed

\* C3: the registry holds at most one record per id and the record carries the
\* name and endpoint of the last registration of its id.
C3_OneRecordPerId ==
    /\ \A i, j \in 1..Len(file) : i # j => file[i].id # file[j].id
    /\ \A i \in 1..Len(file) :
          lastReg[file[i].id] = <<file[i].name, file[i].endpoint>>

\* An id was registered twice, with another name and endpoint the second time,
\* beside another agent that the liveness loop has moved to ACTIVE.
C3_Witness ==
    /\ Len(file) = 2
    /\ \E i, j \in 1..Len(emitted) :
          /\ i < j
          /\ emitted[i].pub = "register" /\ emitted[j].pub = "register"
          /\ emitted[i].agent.id = emitted[j].agent.id
          /\ emitted[i].agent.name # emitted[j].agent.name
          /\ emitted[i].agent.endpoint # emitted[j].agent.endpoint

\* C4: the status and last_seen_at of a stored agent change only in a step of
\* ping_loop (its set_status calls); a registration of an id that exists
\* leaves them as they are.
C4_ReRegisterKeepsStatus ==
    [][\A i \in 1..Len(file) :
          mon' = mon => /\ file'[i].status = file[i].status
                        /\ file'[i].last_seen_at = file[i].last_seen_at]_vars

\* C5: a probe step of ping_loop publishes exactly one agent_status_changed
\* event, carrying the stored record, when it flips the stored status of the
\* probed agent, and publishes nothing when it does not.
C5_OneEventPerFlip ==
    [][(mon.pc = "probe" /\ mon' # mon) =>
          LET i == IndexOf(file, Head(mon.todo).id)
          IN  IF file'[i].status # file[i].status
              THEN /\ OneMore
                   /\ LastEvent(emitted').pub = "monitor"
                   /\ LastEvent(emitted').type = "agent_status_changed"
                   /\ LastEvent(emitted').agent = file'[i]
              ELSE emitted' = emitted]_vars

\* The loop has published an ACTIVE event, and its last probe, of an agent it
\* found in the status already stored, published nothing.
C5_Witness ==
    /\ \E i \in 1..Len(emitted) :
          emitted[i].pub = "monitor" /\ emitted[i].agent.status = ACTIVE
    /\ call.id # "" /\ call.pre.status = call.status /\ call.ret = <<>>
    /\ mon.pc # "bcast"

\* C6: a step of ping_loop that moves an agent from ACTIVE to INACTIVE
\* publishes exactly one event, with status INACTIVE, and the stored and the
\* published last_seen_at are the one the agent had while ACTIVE, which is set.
C6_InactiveKeepsLastSeen ==
    [][\A i \in 1..Len(file) :
          (mon' # mon /\ file[i].status = ACTIVE /\ file'[i].status = INACTIVE) =>
             /\ OneMore
             /\ LastEvent(emitted').pub = "monitor"
             /\ LastEvent(emitted').agent.id = file[i].id
             /\ LastEvent(emitted').agent.status = INACTIVE
             /\ LastEvent(emitted').agent.last_seen_at = file[i].last_seen_at
             /\ file'[i].last_seen_at = file[i].last_seen_at
             /\ file[i].last_seen_at # None]_vars

\* The loop moved an agent to INACTIVE and the record keeps its last_seen_at.
C6_Witness ==
    /\ call.id # "" /\ call.pre.status = ACTIVE /\ call.status = INACTIVE
    /\ call.changed
    /\ LastEvent(emitted).pub = "monitor"
    /\ LastEvent(emitted).agent.status = INACTIVE
    /\ LastEvent(emitted).agent.last_seen_at # None

\* C7: when a broadcast ran with no connect or disconnect beside it, the
\* subscriber set at its return is the set at its call less the subscribers
\* whose send failed, and every subscriber left has received the event.
C7_FailedPruned ==
    (done.seq # 0 /\ done.clean) =>
       /\ done.after = done.before \ done.failed
       /\ \A s \in done.after : done.seq \in Range(recv[s])

\* A broadcast to two subscribers returned: one send failed, one subscriber
\* is left.
C7_Witness ==
    /\ done.seq # 0 /\ done.clean
    /\ Cardinality(done.before) = 2
    /\ Cardinality(done.failed) = 1
    /\ Cardinality(done.after) = 1

\* C8: broadcast never raises to its caller, whatever sends fail.
C8_BroadcastNeverRaises ==
    /\ ~done.raised
    /\ \A p \in Calls : ~bc[p].raised

\* A broadcast returned although every send of it failed, one of them to a
\* socket that was no longer CONNECTED.
C8_Witness ==
    /\ done.seq # 0 /\ ~done.raised
    /\ done.before # {} /\ done.failed = done.before
    /\ \E s \in done.failed : ws[s].client_state # CONNECTED

C10_LoopNeverDies ==
    /\ mon.pc \in {"run", "probe", "bcast", "sleep"}
    /\ mon.err => (mon.pc = "sleep" /\ ENABLED MonitorSleep)

\* An iteration with two agents in its snapshot was ended by an exception and
\* the loop is at its sleep.
C10_Witness ==
    /\ mon.err /\ mon.pc = "sleep"
    /\ Len(file) = 2
    /\ \E i \in 1..Len(file) : file[i].status = ACTIVE

\* C11: whenever the process ends in an upsert_agent or set_status, at any
\* point of its _write, what is read from the registry file afterwards is
\* whole and is the registry as it was before the call or as the call makes
\* it.  Stated of every state, since the process can end in any of them.
C11_CrashAtomic ==
    LET r == _read_sync(disk)
    IN  /\ r.ok
        /\ r.agents = store.last.pre \/ r.agents = store.last.post

\* The process ended while json.dump was writing: the temporary file holds
\* part of the new text, and the registry file still holds the old registry,
\* with an agent in it.
C11_Witness ==
    /\ store.boot
    /\ disk.tmp.exists /\ ~json_load(disk.tmp.text).ok /\ disk.tmp.text # <<>>
    /\ store.last.pre # store.last.post
    /\ store.last.pre # <<>>
    /\ _read_sync(disk).agents = store.last.pre

\* C12: list_agents returns no agents and raises nothing when the registry
\* file is missing and when its text cannot be parsed.
C12_UnreadableListsEmpty ==
    (listed.n # 0 /\ (listed.missing \/ ~listed.readable))
       => (~listed.raised /\ listed.ret = <<>>)

\* C13: GET /agents answers, without error, with the stored agents whose
\* status is the filter, in stored order (with all of them when there is no
\* filter), also when no agent has that status.
C13_ListFiltered ==
    listed.n # 0 =>
       /\ ~listed.raised
       /\ listed.ret = IF listed.status = "" THEN listed.pre
                       ELSE SelectSeq(listed.pre, LAMBDA a : a.status = listed.status)

\* The events of the liveness loop that carry status INACTIVE.
DownEvents ==
    {i \in 1..Len(emitted) :
        emitted[i].pub = "monitor" /\ emitted[i].agent.status = INACTIVE}

\* The agent of the scenario as list_agents shows it (NoAgent before its
\* registration) and whether its endpoint answers.
TheAgent == IF list_agents(file) = <<>> THEN NoAgent ELSE list_agents(file)[1]
TheHealth == IF TheAgent = NoAgent THEN "" ELSE health[TheAgent.endpoint]

\* C14: an agent registered once whose endpoint answers /ping with 200 from
\* some point on is eventually listed ACTIVE with last_seen_at set; when the
\* endpoint then stops answering, the agent is eventually listed INACTIVE for
\* good, and exactly one INACTIVE event has been published, none before.
C14_ProbeScenario ==
    /\ (TheHealth = "up")
          ~> \/ TheAgent.status = ACTIVE /\ TheAgent.last_seen_at # None
             \/ TheHealth = "gone"
    /\ (TheAgent.status = ACTIVE /\ TheHealth = "gone")
          ~> [](TheAgent.status = INACTIVE /\ Cardinality(DownEvents) = 1)
    /\ [](Cardinality(DownEvents) <= 1)
    /\ [](TheAgent.status = ACTIVE => DownEvents = {})

\* The agent was listed ACTIVE, its endpoint was shut down, and it is listed
\* INACTIVE with the last_seen_at of its last answer, after one INACTIVE event.
C14_Witness ==
    /\ file # <<>>
    /\ health[file[1].endpoint] = "gone"
    /\ file[1].status = INACTIVE /\ file[1].last_seen_at # None
    /\ Cardinality(DownEvents) = 1
    /\ \E i \in 1..Len(emitted) :
          emitted[i].pub = "monitor" /\ emitted[i].agent.status = ACTIVE

\* The rest of the snapshot stays to be probed in the iteration.
RestKept ==
    /\ mon'.pc \in {"probe", "bcast"}
    /\ mon'.todo = mon.todo \/ mon'.todo = Tail(mon.todo)

\* C15: whatever fails in the handling of one agent of the snapshot (the
\* probe, or a call to the registry), the agents after it are still probed
\* in the same iteration.
C15_RestProbed ==
    [][(mon.pc \in {"probe", "bcast"} /\ mon' # mon /\ Len(mon.todo) > 1)
          => RestKept]_vars

\* C16, as claimed: an event is published only by a step of the liveness
\* loop in which set_status changed a stored status; registrations and
\* listings publish nothing.
C16_OnlyStatusChangesPublish ==
    [][emitted' # emitted =>
          /\ LastEvent(emitted').pub = "monitor"
          /\ LastEvent(emitted').type = "agent_status_changed"
          /\ call'.changed /\ file' # file]_vars

\* C16, amended: a step publishes at most one event.  An agent_status_changed
\* event comes from a registration, carrying the submitted record (INACTIVE,
\* no last_seen_at), or from a set_status of the liveness loop that changed the
\* stored status, carrying the updated record; a listing publishes only with
\* a status filter that matches, and then a chat_message naming the first
\* match; a step that changes the registry outside the loop publishes.
C16_WhoPublishes ==
    [][/\ emitted' # emitted =>
            /\ OneMore
            /\ LET e == LastEvent(emitted')
               IN  \/ /\ e.pub = "register" /\ e.type = "agent_status_changed"
                      /\ e.agent.status = INACTIVE /\ e.agent.last_seen_at = None
                      /\ e.agent \in Range(file')
                      /\ mon' = mon /\ listed' = listed
                   \/ /\ e.pub = "monitor" /\ e.type = "agent_status_changed"
                      /\ call'.changed /\ call'.ret = <<e.agent>>
                      /\ file' # file /\ e.agent \in Range(file')
                      /\ e.agent.status # call'.pre.status
                   \/ /\ e.pub = "list" /\ e.type = "chat_message"
                      /\ file' = file /\ mon' = mon
                      /\ listed'.status \in {ACTIVE, INACTIVE}
                      /\ listed'.ret # <<>>
                      /\ e.agent.id = listed'.ret[1].id
       /\ (listed' # listed /\ listed'.status = "") => emitted' = emitted
       /\ (file' # file /\ mon' = mon) => emitted' # emitted]_vars

\* A registration, a filtered listing and a status change by the loop have
\* each published an event, and the WebSocket client has received the one of
\* the registration.
C16_Witness ==
    /\ \E i, j, k \in 1..Len(emitted) :
          /\ emitted[i].pub = "register"
          /\ emitted[j].pub = "list"
          /\ emitted[k].pub = "monitor"
    /\ \E i \in Range(recv["s1"]) : emitted[i].pub = "register"

\* A subscriber is healthy: it is connected, its handler is in its receive
\* loop and it is in the subscriber list.
Healthy(s) ==
    /\ ws[s].pc = "open" /\ ws[s].client_state = CONNECTED
    /\ s \in Range(active_connections)

\* C17: the delivery of an event to a healthy subscriber of the snapshot does
\* not wait for the delivery to another subscriber: whenever a broadcast is
\* waiting on a send, every other healthy subscriber of its snapshot has
\* received the event, so that it has it also when that send never completes.
C17_NeverBlocked ==
    \A p \in Calls : \A s \in bc[p].before :
       (bc[p].active /\ bc[p].cur # "" /\ bc[p].cur # s /\ Healthy(s))
          => bc[p].seq \in Range(recv[s])

\* C18: while a broadcast waits on a send no task holds the hub's lock, and
\* a connect and a disconnect can run at once.
C18_LockFreeDuringSend ==
    \A p \in Calls :
       (bc[p].active /\ bc[p].cur # "") =>
          /\ hub_lock_free
          /\ \A s \in Subs :
                /\ ws[s].pc = "new" => ENABLED WsConnect(s)
                /\ ws[s].pc = "open" => ENABLED WsClose(s, TRUE)

\* A broadcast is waiting on its send to one subscriber; since its call
\* another subscriber has connected and a subscriber of its snapshot has
\* disconnected.
C18_Witness ==
    \E p \in Calls :
       /\ bc[p].active /\ bc[p].cur # "" /\ ~bc[p].clean
       /\ \E s \in Subs : s \notin bc[p].before /\ s \in Range(active_connections)
       /\ \E s \in bc[p].before : ws[s].pc = "closed"

\* C19: at most one store operation is between its read and its write, the
\* one that holds the lock, and the registry file always holds what the
\* completed calls make of the registry one after the other, in the order of
\* their writes: no call's effect is lost.
C19_NoLostUpdate ==
    /\ Cardinality({c \in StoreClients : store.op[c].pc # "idle"}) <= 1
    /\ \A c \in StoreClients \ {"init"} :
          store.op[c].pc # "idle" => store.lock = c
    /\ _read_sync(disk) = [ok |-> TRUE, agents |-> store.committed]

\* ping_loop's set_status is about to replace the registry file, in which a
\* registration has renamed the agent; a registration cannot start.
C19_Witness ==
    /\ store.op["monitor"].pc = "replace" /\ store.lock = "monitor"
    /\ \E i \in 1..Len(store.committed) : store.committed[i].name = "n2"
    /\ store.op["monitor"].data # store.committed
    /\ ~ENABLED StoreBegin("register", [kind |-> "upsert",
                                        agent |-> Agent("a1", "n1", "u1")])

\* The awaited send of the call p is handled in the step.
Resumed(p) == bc[p].cur # "" /\ bc'[p].cur # bc[p].cur

\* The broadcast call p returns in the step.
Returns(p) == bc[p].active /\ ~bc'[p].active

\* C20, as claimed: a subscriber found in a state other than CONNECTED is
\* marked stale, and is not in the subscriber list when the broadcast returns.
C20_NonOpenMarkedStale ==
    [][\A p \in Calls :
          /\ (Resumed(p) /\ ~bc[p].curOpen) => bc[p].cur \in Range(bc'[p].stale)
          /\ Returns(p) =>
                \A s \in bc[p].before :
                   ws[s].client_state # CONNECTED => s \notin Range(active_connections')
      ]_vars

\* C20, amended: a subscriber is marked stale exactly when its send raised,
\* whatever state it was found in; the subscribers marked stale, and those not
\* CONNECTED, are not in the subscriber list when the broadcast returns.
C20_StaleWhenSendRaises ==
    [][\A p \in Calls :
          /\ Resumed(p) => (bc[p].cur \in Range(bc'[p].stale) <=> ~bc[p].curOk)
          /\ Resumed(p) => bc[p].stale \o (IF bc[p].curOk THEN <<>> ELSE <<bc[p].cur>>)
                              = bc'[p].stale
          /\ Returns(p) =>
                \A s \in bc[p].before :
                   (s \in Range(bc[p].stale) \/ ws[s].client_state # CONNECTED)
                      => s \notin Range(active_connections')
      ]_vars

\* A broadcast has marked one subscriber stale and is waiting on its send to
\* a subscriber found DISCONNECTED, a send that does not raise.
C20_Witness ==
    \E p \in Calls :
       /\ bc[p].active /\ bc[p].cur # ""
       /\ ~bc[p].curOpen /\ bc[p].curOk
       /\ bc[p].stale # <<>>


\* ------------------------------------------------------------------- C21
\* The sockets that a step disconnects: those whose connection handler ends
\* (its finally, line 353) and the stale list of a broadcast that returns
\* (lines 115-117).
Disconnected ==
    {s \in Subs : ws[s].pc # "closed" /\ ws'[s].pc = "closed"}
    \cup UNION {Range(bc[p].stale) :
                  p \in {q \in Calls : /\ bc[q].active /\ ~bc'[q].active
                                             /\ ~bc[q].raised}}

\* conns without the members of the set d, the order kept.
Without(conns, d) == SelectSeq(conns, LAMBDA s : s \notin d)

\* C21: disconnect is idempotent.  A step that disconnects sockets takes
\* exactly those out of the subscriber list and leaves the rest in place, so
\* disconnecting an absent socket changes nothing, whichever of the stale
\* pruning of a broadcast and the handler's cleanup came first; and a socket
\* whose connection handler has finished is not in the list.
C21_DisconnectIdempotent ==
    /\ [](\A s \in Subs : ws[s].pc = "closed" => s \notin Range(active_connections))
    /\ [][\/ \E s \in Subs : ws[s].pc = "new" /\ ws'[s].pc = "open"
          \/ active_connections' = Without(active_connections, Disconnected)]_vars

\* s1 and s2 were subscribed when the only broadcast was called; the handler
\* of s1 ended while the broadcast was under way; the send to s1 failed, and
\* the pruning disconnected s1 a second time: s2 is still subscribed.
C21_Witness ==
    /\ Len(emitted) = 1
    /\ done.seq = 1
    /\ done.before = {"s1", "s2"}
    /\ done.failed = {"s1"}
    /\ ~done.clean
    /\ ws["s1"].pc = "closed"
    /\ ws["s2"].pc = "open"
    /\ active_connections = <<"s2">>

\* ------------------------------------------------------------------- C22
\* C22: every stored agent is ACTIVE or INACTIVE and an ACTIVE one has a
\* last_seen_at; and a step that gives the last_seen_at of a stored agent a
\* new value other than None is a probe of that agent answered with 200,
\* which stores it ACTIVE with the time of the probe.
C22_ActiveHasLastSeen ==
    /\ [](\A i \in 1..Len(file) :
            /\ file[i].status \in Statuses
            /\ file[i].status = ACTIVE => file[i].last_seen_at # None)
    /\ [][\A i \in 1..Len(file') :
            LET id == file'[i].id
                j == IndexOf(file, id)
            IN  (/\ file'[i].last_seen_at # None
                 /\ (j = 0 \/ file[j].last_seen_at # file'[i].last_seen_at))
                   => /\ mon.pc = "probe" /\ Head(mon.todo).id = id
                      /\ call'.id = id /\ call'.status = ACTIVE
                      /\ call'.ts = clock
                      /\ file'[i].status = ACTIVE
                      /\ file'[i].last_seen_at = clock]_vars

\* An agent that the loop had stored ACTIVE was registered again after the
\* snapshot of an iteration; its probe failed, and the loop handed the
\* snapshot's last_seen_at to set_status(INACTIVE): the record keeps None.
C22_Witness ==
    /\ call.id # "" /\ call.status = INACTIVE /\ call.ts # None
    /\ call.pre.status = INACTIVE /\ call.pre.last_seen_at = None
    /\ file[IndexOf(file, call.id)] = call.pre
    /\ \E i \in 1..Len(emitted) :
          /\ emitted[i].pub = "monitor"
          /\ emitted[i].agent.id = call.id
          /\ emitted[i].agent.status = ACTIVE

\* ------------------------------------------------------------------- C23
\* C23: a probe step of ping_loop that changes the stored status of an agent
\* has probed the endpoint stored for that agent: the endpoint of the
\* iteration's snapshot, which client.get was given (line 472), is the
\* endpoint of the record that set_status writes.
C23_StatusFromStoredEndpoint ==
    [][(mon.pc = "probe" /\ mon' # mon) =>
          LET agent == Head(mon.todo)
              i == IndexOf(file, agent.id)
          IN  (i # 0 /\ file'[i].status # file[i].status)
                 => file[i].endpoint = agent.endpoint]_vars

=============================================================================
